---- MODULE Spec2Model ----
(***************************************************************************)
(* camoco/Term.py: a Term owns a set of Locus objects and offers           *)
(* add_locus, __len__, flanking_loci, effective_loci and strongest_loci.   *)
(* The Locus class lives outside Term.py; its order, equality, overlap     *)
(* test, merge and attribute lookup are modelled from their contracts.     *)
(***************************************************************************)
EXTENDS Integers, Sequences, FiniteSets, TLC

\* ---------------------------------------------------------------- bounds
MaxPos == 2      \* positions are 0..MaxPos
MaxWin == 2      \* window radii and window_size arguments are 0..MaxWin
MaxAttr == 1     \* numeric attribute values are 0..MaxAttr
SharedMaxPos == 1 \* the positions of the loci two Terms share are 0..SharedMaxPos

\* ------------------------------------------------------- program constants
None == -1                   \* Python None: window_size=None, absent attr
DefaultWindowSize == 100000  \* flanking_loci(gene, window_size=100000)

Positions == 0..MaxPos
Windows == 0..MaxWin
AttrVals == {None} \cup (0..MaxAttr)
Inf == MaxAttr + 1           \* np.inf: above every attribute value
WinArgs == {None} \cup Windows
BuiltWindows == {0, 1}

\* A Locus object is <<position, copy>>: two distinct objects can be equal.
Copies == {1, 2}
Objs == Positions \X Copies
NoLocus == <<None, None>>
Terms == {"t1", "t2"}

VARIABLES
    window,     \* window[o]: the window field of Locus object o (0 until o is held by a Term)
    lattr,      \* lattr[o]: the ranking attribute of o, None if absent
    id,         \* id[t]: Term.id
    desc,       \* desc[t]: Term.desc
    attrs,      \* attrs[t]: Term.attrs
    loci,       \* loci[t]: Term.loci, a set of Locus objects
    given,      \* given[t]: the positions of all loci handed to the Term so far
    call,       \* the last call made: [op, t, locus, gene, ws]
    exc,        \* "none", or the exception that ended the last call
    collapsed,  \* the list `collapsed` of the last effective_loci run
    enumerated, \* the locus each group's sub_loci set yielded first in the last strongest_loci
    ret,        \* the value the last call returned
    repeat,     \* the last two calls were both effective_loci(None) on one Term
    overrider   \* [t, ws]: the Term and window_size of the last override, t = "none" if none

vars == <<window, lattr, id, desc, attrs, loci, given, call, exc,
          collapsed, enumerated, ret, repeat, overrider>>

\* ------------------------------------------------------------- arithmetic
Min(a, b) == IF a <= b THEN a ELSE b
Max(a, b) == IF a >= b THEN a ELSE b
Abs(x) == IF x < 0 THEN 0 - x ELSE x

\* ------------------------------------------------- Locus (the collaborator)
Pos(o) == o[1]

\* Locus equality and order: by position.
LocusEq(a, b) == Pos(a) = Pos(b)
LocusLt(a, b) == Pos(a) < Pos(b)

\* A Locus value as effective_loci handles it: its window-extended range and
\* its sub_loci; a freshly constructed Locus is its own sole sub-locus.
AsLocus(o, win) ==
    [lo |-> Pos(o) - win[o], hi |-> Pos(o) + win[o], sub_loci |-> {o}]

\* `locus in group`: the window-extended ranges intersect.
Overlaps(group, locus) == group.lo <= locus.hi /\ locus.lo <= group.hi

\* `group + locus`: spans both inputs, sub_loci is the union.
Combine(group, locus) ==
    [lo |-> Min(group.lo, locus.lo), hi |-> Max(group.hi, locus.hi),
     sub_loci |-> group.sub_loci \cup locus.sub_loci]

\* abs(gene - locus): the distance of a locus to a position.
Distance(gene, o) == Abs(gene - Pos(o))

\* float(x.default_getitem(attr, np.inf))
AttrKey(o) == IF lattr[o] = None THEN Inf ELSE lattr[o]

\* ------------------------------------------------------------------ Term
\* Faulty variant: add keeps every object, as a list would.
SetAdd_KeepAll(S, o) == S \cup {o}

\* self.loci.add(locus): no effect when an equal locus is present.
SetAdd(S, o) == IF \E m \in S : LocusEq(m, o) THEN S ELSE S \cup {o}

\* set(loci): of equal loci the one met first (the lower copy) is kept.
RECURSIVE SetOf(_)
SetOf(list) ==
    IF list = <<>> THEN {}
    ELSE SetAdd(SetOf(SubSeq(list, 1, Len(list) - 1)), list[Len(list)])

\* Faulty variant: the loci are taken in descending order.
RECURSIVE SortedLoci_Descending(_)
SortedLoci_Descending(S) ==
    IF S = {} THEN <<>>
    ELSE LET first == CHOOSE o \in S : \A p \in S : ~LocusLt(o, p)
         IN <<first>> \o SortedLoci_Descending(S \ {first})

\* sorted(self.loci)
RECURSIVE SortedLoci(_)
SortedLoci(S) ==
    IF S = {} THEN <<>>
    ELSE LET first == CHOOSE o \in S : \A p \in S : ~LocusLt(p, o)
         IN <<first>> \o SortedLoci(S \ {first})

\* Faulty variant: the window is assigned without the test for None.
ApplyWindow_Unguarded(S, ws) == [o \in Objs |-> IF o \in S THEN ws ELSE window[o]]

\* for locus in loci: locus.window = window_size
ApplyWindow(S, ws) ==
    IF ws # None THEN [o \in Objs |-> IF o \in S THEN ws ELSE window[o]]
    ELSE window

\* Faulty variant: an overlapping locus replaces the last group instead of joining it.
RECURSIVE CollapseLoop_Replace(_, _, _)
CollapseLoop_Replace(acc, rest, win) ==
    IF rest = <<>> THEN acc
    ELSE LET locus == AsLocus(Head(rest), win)
             last == acc[Len(acc)]
         IN IF Overlaps(last, locus)
            THEN CollapseLoop_Replace([acc EXCEPT ![Len(acc)] = locus],
                                      Tail(rest), win)
            ELSE CollapseLoop_Replace(Append(acc, locus), Tail(rest), win)

\* Faulty variant: the overlap test is made against the first group, collapsed[0].
RECURSIVE CollapseLoop_First(_, _, _)
CollapseLoop_First(acc, rest, win) ==
    IF rest = <<>> THEN acc
    ELSE LET locus == AsLocus(Head(rest), win)
             last == acc[Len(acc)]
         IN IF Overlaps(acc[1], locus)
            THEN CollapseLoop_First([acc EXCEPT ![Len(acc)] = Combine(last, locus)],
                                    Tail(rest), win)
            ELSE CollapseLoop_First(Append(acc, locus), Tail(rest), win)

\* Faulty variant: the branches of the overlap test are swapped.
RECURSIVE CollapseLoop_Swapped(_, _, _)
CollapseLoop_Swapped(acc, rest, win) ==
    IF rest = <<>> THEN acc
    ELSE LET locus == AsLocus(Head(rest), win)
             last == acc[Len(acc)]
         IN IF ~Overlaps(last, locus)
            THEN CollapseLoop_Swapped([acc EXCEPT ![Len(acc)] = Combine(last, locus)],
                                      Tail(rest), win)
            ELSE CollapseLoop_Swapped(Append(acc, locus), Tail(rest), win)

\* The loop of effective_loci over the loci left after pop(0).
RECURSIVE CollapseLoop(_, _, _)
CollapseLoop(acc, rest, win) ==
    IF rest = <<>> THEN acc
    ELSE LET locus == AsLocus(Head(rest), win)
             last == acc[Len(acc)]
         IN IF Overlaps(last, locus)
            THEN CollapseLoop([acc EXCEPT ![Len(acc)] = Combine(last, locus)],
                              Tail(rest), win)
            ELSE CollapseLoop(Append(acc, locus), Tail(rest), win)

\* collapsed = [loci.pop(0)]; for locus in loci: ...
Collapse(sorted, win) ==
    CollapseLoop(<<AsLocus(Head(sorted), win)>>, Tail(sorted), win)

\* The orders in which a set can be iterated.
RECURSIVE Enumerations(_)
Enumerations(S) ==
    IF S = {} THEN {<<>>}
    ELSE UNION {{<<o>> \o e : e \in Enumerations(S \ {o})} : o \in S}

\* The orders in which the sub_loci sets of a list of groups can be iterated.
RECURSIVE EnumLists(_)
EnumLists(groups) ==
    IF groups = <<>> THEN {<<>>}
    ELSE {<<e>> \o rest : e \in Enumerations(Head(groups).sub_loci),
                          rest \in EnumLists(Tail(groups))}

\* Faulty variant: sorted(..., reverse=True)[0], the first enumerated locus of maximal key.
StrongestOf_Reverse(e) ==
    LET i == CHOOSE k \in DOMAIN e :
                 /\ \A j \in DOMAIN e : AttrKey(e[k]) >= AttrKey(e[j])
                 /\ \A j \in 1..(k - 1) : AttrKey(e[j]) < AttrKey(e[k])
    IN e[i]

\* sorted(sub_loci, key=attr)[0]: the sort is stable, so the first enumerated
\* locus of minimal key.
StrongestOf(e) ==
    LET i == CHOOSE k \in DOMAIN e :
                 /\ \A j \in DOMAIN e : AttrKey(e[k]) <= AttrKey(e[j])
                 /\ \A j \in 1..(k - 1) : AttrKey(e[j]) > AttrKey(e[k])
    IN e[i]

\* Faulty variant: the threshold is the locus's own window.
Flanking_OwnWindow(S, gene, ws) == {o \in S : Distance(gene, o) <= window[o]}

\* [locus for locus in self.loci if abs(gene-locus) <= window_size]; the list
\* comes in the set's iteration order, so it is kept as the set of its elements.
Flanking(S, gene, ws) == {o \in S : Distance(gene, o) <= ws}

NoCall == [op |-> "init", t |-> "t1", locus |-> NoLocus, gene |-> None, ws |-> None]

\* ------------------------------------------------------------------ Init
Live(o) == \E t \in Terms : o \in loci[t]

\* The list of loci handed to the constructor: at the positions P, with an
\* equal second object at the positions D.
InitialLoci(P, D) ==
    SortedLoci({<<p, 1>> : p \in P}) \o SortedLoci({<<p, 2>> : p \in D})

\* Term(id, desc, loci): "t1" is built from a list of loci at the positions P
\* with windows win and attributes at, "t2" from none.
TermInit(P, D, win, at) ==
    /\ id = [t \in Terms |-> t]
    /\ desc = [t \in Terms |-> ""]
    /\ attrs = [t \in Terms |-> <<>>]
    /\ given = [t \in Terms |-> IF t = "t1" THEN P ELSE {}]
    /\ loci = [t \in Terms |-> IF t = "t1" THEN SetOf(InitialLoci(P, D)) ELSE {}]
    /\ window = [o \in Objs |-> IF o \in SetOf(InitialLoci(P, D)) THEN win[Pos(o)] ELSE 0]
    /\ lattr = [o \in Objs |-> IF o \in SetOf(InitialLoci(P, D)) THEN at[Pos(o)] ELSE None]
    /\ call = NoCall
    /\ exc = "none"
    /\ collapsed = <<>>
    /\ enumerated = <<>>
    /\ ret = None
    /\ repeat = FALSE
    /\ overrider = [t |-> "none", ws |-> None]

\* Loci without the ranking attribute; the list may repeat equal loci.
Init ==
    \E P \in SUBSET Positions : \E D \in SUBSET P, win \in [P -> Windows] :
        TermInit(P, D, win, [p \in P |-> None])

\* Loci built with window 0 or 1 (wider ones come from window_size) and any
\* value, or none, of the ranking attribute.
InitStrongest ==
    \E P \in SUBSET Positions : \E win \in [P -> BuiltWindows], at \in [P -> AttrVals] :
        TermInit(P, {}, win, at)

\* --------------------------------------------------------------- actions
Frame == UNCHANGED <<id, desc, attrs>>

\* Term.add_locus(locus). The locus is a live object, or one just constructed
\* with window w and attribute a (which lives on only if the set keeps it).
AddLocus(t, o, w, a) ==
    /\ IF Live(o)
       THEN w = window[o] /\ a = lattr[o]
       ELSE \A c \in Copies : c < o[2] => Live(<<Pos(o), c>>)
    /\ loci' = [loci EXCEPT ![t] = SetAdd(loci[t], o)]
    /\ given' = [given EXCEPT ![t] = given[t] \cup {Pos(o)}]
    /\ window' = IF o \in loci'[t] THEN [window EXCEPT ![o] = w] ELSE window
    /\ lattr' = IF o \in loci'[t] THEN [lattr EXCEPT ![o] = a] ELSE lattr
    /\ call' = [NoCall EXCEPT !.op = "add_locus", !.t = t, !.locus = o]
    /\ exc' = "none"
    /\ ret' = None
    /\ collapsed' = <<>>
    /\ enumerated' = <<>>
    /\ repeat' = FALSE
    /\ UNCHANGED overrider
    /\ Frame

\* len(term)
TermLen(t) ==
    /\ call' = [NoCall EXCEPT !.op = "len", !.t = t]
    /\ exc' = "none"
    /\ ret' = Cardinality(loci[t])
    /\ collapsed' = <<>>
    /\ enumerated' = <<>>
    /\ repeat' = FALSE
    /\ UNCHANGED <<window, lattr, loci, given, overrider>>
    /\ Frame

\* Term.flanking_loci(gene, window_size)
FlankingLoci(t, gene, ws) ==
    /\ call' = [NoCall EXCEPT !.op = "flanking_loci", !.t = t, !.gene = gene, !.ws = ws]
    /\ exc' = "none"
    /\ ret' = Flanking(loci[t], gene, ws)
    /\ collapsed' = <<>>
    /\ enumerated' = <<>>
    /\ repeat' = FALSE
    /\ UNCHANGED <<window, lattr, loci, given, overrider>>
    /\ Frame

\* Faulty variant: an empty Term yields an empty list.
RunEffective_EmptyList(t, ws) ==
    /\ window' = ApplyWindow(loci[t], ws)
    /\ overrider' = IF ws # None /\ loci[t] # {} THEN [t |-> t, ws |-> ws] ELSE overrider
    /\ exc' = "none"
    /\ collapsed' = IF loci[t] = {} THEN <<>> ELSE Collapse(SortedLoci(loci[t]), window')
    /\ UNCHANGED <<lattr, loci, given>>
    /\ Frame

\* Faulty variant: the windows are overridden after the loop instead of before it.
RunEffective_LateOverride(t, ws) ==
    /\ window' = ApplyWindow(loci[t], ws)
    /\ overrider' = IF ws # None /\ loci[t] # {} THEN [t |-> t, ws |-> ws] ELSE overrider
    /\ IF loci[t] = {}
       THEN exc' = "IndexError" /\ collapsed' = <<>>
       ELSE exc' = "none" /\ collapsed' = Collapse(SortedLoci(loci[t]), window)
    /\ UNCHANGED <<lattr, loci, given>>
    /\ Frame

\* The body of effective_loci, shared by both callers: the window override,
\* then IndexError on pop(0) of an empty list, else the collapsed list (the
\* log line reports len(self.loci) and len(collapsed) and changes nothing).
RunEffective(t, ws) ==
    /\ window' = ApplyWindow(loci[t], ws)
    /\ overrider' = IF ws # None /\ loci[t] # {} THEN [t |-> t, ws |-> ws] ELSE overrider
    /\ IF loci[t] = {}
       THEN exc' = "IndexError" /\ collapsed' = <<>>
       ELSE exc' = "none" /\ collapsed' = Collapse(SortedLoci(loci[t]), window')
    /\ UNCHANGED <<lattr, loci, given>>
    /\ Frame

\* Term.effective_loci(window_size)
EffectiveLoci(t, ws) ==
    /\ RunEffective(t, ws)
    /\ call' = [NoCall EXCEPT !.op = "effective_loci", !.t = t, !.ws = ws]
    /\ ret' = IF exc' = "none" THEN collapsed' ELSE None
    /\ enumerated' = <<>>
    /\ repeat' = /\ ws = None /\ exc' = "none"
                 /\ call.op = "effective_loci" /\ call.t = t
                 /\ call.ws = None /\ exc = "none"

\* Term.strongest_loci(attr, window_size)
StrongestLoci(t, ws) ==
    /\ RunEffective(t, ws)
    /\ call' = [NoCall EXCEPT !.op = "strongest_loci", !.t = t, !.ws = ws]
    /\ repeat' = FALSE
    /\ IF exc' = "none"
       THEN \E es \in EnumLists(collapsed') :
               /\ enumerated' = [i \in DOMAIN es |-> es[i][1]]
               /\ ret' = [i \in DOMAIN es |-> StrongestOf(es[i])]
       ELSE enumerated' = <<>> /\ ret' = None

\* ------------------------------------------------------- specifications
\* The container: construction, add_locus, len.
NextContainer ==
    \/ \E o \in Objs, w \in Windows : AddLocus("t1", o, w, None)
    \/ TermLen("t1")

SpecContainer == Init /\ [][NextContainer]_vars

\* flanking_loci over Terms of loci with any windows.
NextFlank ==
    \/ \E o \in Objs, w \in Windows : AddLocus("t1", o, w, None)
    \/ \E g \in Positions, ws \in Windows \cup {DefaultWindowSize} :
          FlankingLoci("t1", g, ws)

SpecFlank == Init /\ [][NextFlank]_vars

\* effective_loci over one Term of loci with any windows.
NextCollapse ==
    \/ \E o \in Objs, w \in Windows : AddLocus("t1", o, w, None)
    \/ \E ws \in WinArgs : EffectiveLoci("t1", ws)

SpecCollapse == Init /\ [][NextCollapse]_vars

\* strongest_loci over one Term of loci with any windows and attributes.
NextStrongest == \E ws \in WinArgs : StrongestLoci("t1", ws)

SpecStrongest == InitStrongest /\ [][NextStrongest]_vars

\* Two Terms over shared Locus objects: both start empty, "t1" is handed new
\* loci at the positions 0..SharedMaxPos, built with window 0 or 1, "t2" loci
\* that "t1" already holds.
InitShared == TermInit({}, {}, <<>>, <<>>)

NextShared ==
    \/ \E o \in Objs, w \in BuiltWindows :
          Pos(o) <= SharedMaxPos /\ AddLocus("t1", o, w, None)
    \/ \E o \in loci["t1"] : AddLocus("t2", o, window[o], None)
    \/ \E t \in Terms, ws \in WinArgs : EffectiveLoci(t, ws)
    \/ \E t \in Terms, ws \in WinArgs : StrongestLoci(t, ws)

SpecShared == InitShared /\ [][NextShared]_vars

\* ------------------------------------------------------------ properties
EffDone == call.op = "effective_loci" /\ exc = "none"
StrDone == call.op = "strongest_loci" /\ exc = "none"

\* Two loci overlap under their windows.
PairOverlap(a, b) ==
    /\ Pos(a) - window[a] <= Pos(b) + window[b]
    /\ Pos(b) - window[b] <= Pos(a) + window[a]

\* The window-extended extent of a set of loci.
LoOf(S) == CHOOSE x \in {Pos(o) - window[o] : o \in S} :
               \A y \in {Pos(o) - window[o] : o \in S} : x <= y
HiOf(S) == CHOOSE x \in {Pos(o) + window[o] : o \in S} :
               \A y \in {Pos(o) + window[o] : o \in S} : x >= y
ExtentsMeet(S, T) == LoOf(S) <= HiOf(T) /\ LoOf(T) <= HiOf(S)

\* The loci linked to o by a chain of pairwise overlaps within S.
RECURSIVE Linked(_, _)
Linked(C, S) ==
    LET D == C \cup {b \in S : \E a \in C : PairOverlap(a, b)}
    IN IF D = C THEN C ELSE Linked(D, S)
Components(S) == {Linked({o}, S) : o \in S}

FirstOf(S) == CHOOSE o \in S : \A p \in S : Pos(o) <= Pos(p)
UniformWindows(S) == \A a, b \in S : window[a] = window[b]

\* C1: after effective_loci returns, every locus of Term.loci is a sub-locus
\* of exactly one returned group: the groups' sub_loci are pairwise disjoint
\* and their union is Term.loci.
C1_Partition ==
    EffDone =>
        /\ UNION {ret[i].sub_loci : i \in DOMAIN ret} = loci[call.t]
        /\ \A i, j \in DOMAIN ret : i # j => ret[i].sub_loci \cap ret[j].sub_loci = {}
        /\ \A o \in loci[call.t] : Cardinality({i \in DOMAIN ret : o \in ret[i].sub_loci}) = 1

C1_Witness ==
    /\ EffDone
    /\ Len(ret) >= 2
    /\ \E i \in DOMAIN ret : Cardinality(ret[i].sub_loci) >= 2

\* C2: len(effective_loci()) <= len(Term.loci), with equality exactly when no
\* two loci of the Term, neighbours or not, overlap under their windows.
C2_Count ==
    EffDone =>
        /\ Len(ret) <= Cardinality(loci[call.t])
        /\ (Len(ret) = Cardinality(loci[call.t]))
             <=> (\A a, b \in loci[call.t] : a # b => ~PairOverlap(a, b))

C2_Witness ==
    /\ EffDone
    /\ Cardinality(loci[call.t]) >= 2
    /\ Len(ret) = Cardinality(loci[call.t])
    /\ \E o \in loci[call.t] : window[o] > 0

\* C3: the returned list is ascending: every sub-locus of a group sorts before
\* every sub-locus of the next group.
C3_Sorted ==
    EffDone =>
        \A i \in 1..(Len(ret) - 1) :
            \A a \in ret[i].sub_loci, b \in ret[i + 1].sub_loci : Pos(a) < Pos(b)

C3_Witness ==
    /\ EffDone
    /\ Len(ret) >= 2
    /\ Cardinality(ret[1].sub_loci) >= 2

C5_Idempotent ==
    [][/\ (call'.op = "effective_loci" /\ call'.ws = None)
            => (loci' = loci /\ window' = window)
       /\ (/\ EffDone /\ call.ws = None
           /\ call'.op = "effective_loci" /\ call'.ws = None /\ call'.t = call.t)
            => /\ exc' = "none"
               /\ Len(ret') = Len(ret)
               /\ \A i \in DOMAIN ret : ret'[i].sub_loci = ret[i].sub_loci]_vars

C5_Witness ==
    /\ EffDone
    /\ repeat
    /\ Len(ret) >= 2
    /\ \E i \in DOMAIN ret : Cardinality(ret[i].sub_loci) >= 2

C6_Inv ==
    /\ \A t \in Terms : \A a, b \in loci[t] : LocusEq(a, b) => a = b
    /\ \A t \in Terms : Cardinality(loci[t]) = Cardinality(given[t])
    /\ call.op = "len" => ret = Cardinality(given[call.t])

C6_Step ==
    /\ call'.op = "add_locus" => (id' = id /\ desc' = desc /\ attrs' = attrs)
    /\ (call'.op = "add_locus" /\ \E m \in loci[call'.t] : LocusEq(m, call'.locus))
          => loci' = loci

\* C6: Term.loci never holds two equal loci, len(Term) is the number of
\* distinct loci handed to it (at construction and by add_locus), and
\* add_locus of a locus equal to one already present changes none of loci,
\* len, id, desc, attrs.
C6_AddLocus == [](C6_Inv) /\ [][C6_Step]_vars

C6_Witness ==
    /\ call.op = "add_locus"
    /\ call.locus \notin loci[call.t]
    /\ Cardinality(loci[call.t]) >= 2

\* C7: flanking_loci(gene, window_size) returns exactly the loci of the Term
\* at distance <= window_size from gene, whatever their own windows are, and
\* changes neither Term.loci nor any window.
C7_Flanking ==
    [][call'.op = "flanking_loci" =>
          /\ \A o \in loci[call'.t] :
                o \in ret' <=> /\ Pos(o) >= call'.gene - call'.ws
                               /\ Pos(o) <= call'.gene + call'.ws
          /\ ret' \subseteq loci[call'.t]
          /\ loci' = loci
          /\ window' = window]_vars

C7_Witness ==
    /\ call.op = "flanking_loci"
    /\ call.ws = 1
    /\ \E o \in ret : Distance(call.gene, o) = 1 /\ window[o] = 0
    /\ \E o \in loci[call.t] \ ret : window[o] > 0

\* C8: effective_loci and strongest_loci on a Term without loci end in the
\* IndexError of pop(0) for any window_size, returning nothing, with Term.loci
\* still empty and no window changed.
C8_EmptyFails ==
    [][(call'.op \in {"effective_loci", "strongest_loci"} /\ loci[call'.t] = {})
          => /\ exc' = "IndexError"
             /\ ret' = None
             /\ loci' = loci
             /\ window' = window]_vars

C8_Witness ==
    /\ call.op = "effective_loci"
    /\ call.ws # None
    /\ exc = "IndexError"
    /\ loci[call.t] = {}
    /\ \E o \in Objs : Live(o) /\ window[o] # call.ws

\* Two loci of S with no locus of S between them.
Neighbours(a, b, S) ==
    /\ Pos(a) < Pos(b)
    /\ ~\E c \in S : Pos(a) < Pos(c) /\ Pos(c) < Pos(b)

\* The groups are those of the loci S under the one window u: neighbours share
\* a group exactly when they are at most 2u apart.
GroupedBy(groups, S, u) ==
    \A a, b \in S : Neighbours(a, b, S) =>
        ((\E i \in DOMAIN groups : {a, b} \subseteq groups[i].sub_loci)
            <=> Pos(b) - Pos(a) <= 2 * u)

C9_Inv ==
    /\ ((EffDone \/ StrDone) /\ call.ws # None) =>
          /\ \A o \in loci[call.t] : window[o] = call.ws
          /\ GroupedBy(collapsed, loci[call.t], call.ws)
    /\ (/\ EffDone /\ call.ws = None /\ overrider.t # "none"
        /\ \A o \in loci[call.t] : window[o] = overrider.ws)
          => GroupedBy(collapsed, loci[call.t], overrider.ws)

C9_Step ==
    \A o \in Objs : (Live(o) /\ window'[o] # window[o]) =>
        /\ call'.op \in {"effective_loci", "strongest_loci"}
        /\ call'.ws # None
        /\ o \in loci[call'.t]
        /\ window'[o] = call'.ws

\* C9: a call with window_size = w sets the window of every locus of the Term
\* to w before the overlap tests and leaves it at w; windows change in no other
\* way, so a later effective_loci() on this Term, or on a Term sharing the
\* loci, groups by w.
C9_Override == [](C9_Inv) /\ [][C9_Step]_vars

C9_Witness ==
    /\ EffDone
    /\ call.ws = None
    /\ call.t = "t2"
    /\ overrider = [t |-> "t1", ws |-> MaxWin]
    /\ Cardinality(loci["t2"]) >= 2
    /\ \A o \in loci["t2"] : window[o] = MaxWin
    /\ Len(ret) = 1

\* C10 as stated: the returned groups are the minimal number of non-overlapping
\* groups: no two of them overlap, and loci linked by overlaps share a group.
C10_Original ==
    EffDone =>
        /\ \A i, j \in DOMAIN ret : i # j => ~Overlaps(ret[i], ret[j])
        /\ Len(ret) = Cardinality(Components(loci[call.t]))

\* C10, amended: the pass is greedy: a locus joins the group before it exactly
\* when it overlaps the extent of the loci merged so far, and otherwise opens
\* a group; when all loci of the Term have the same window the groups do not
\* overlap and are as few as the overlaps allow.
C10_Greedy ==
    EffDone =>
        /\ \A i \in DOMAIN ret : \A o \in ret[i].sub_loci :
              LET before == {p \in ret[i].sub_loci : Pos(p) < Pos(o)}
              IN before # {} => ExtentsMeet(before, {o})
        /\ \A i \in 2..Len(ret) :
              ~ExtentsMeet(ret[i - 1].sub_loci, {FirstOf(ret[i].sub_loci)})
        /\ \A i \in DOMAIN ret :
              ret[i].lo = LoOf(ret[i].sub_loci) /\ ret[i].hi = HiOf(ret[i].sub_loci)
        /\ UniformWindows(loci[call.t]) =>
              /\ \A i, j \in DOMAIN ret : i # j => ~Overlaps(ret[i], ret[j])
              /\ Len(ret) = Cardinality(Components(loci[call.t]))

C10_Witness ==
    /\ EffDone
    /\ Len(ret) = 2
    /\ Overlaps(ret[1], ret[2])
    /\ Cardinality(Components(loci[call.t])) = 1

====
